---- MODULE Spec2Model ----
(***************************************************************************)
(* State-machine model of DigitalClock (src/dumbwatch.py): the mode state  *)
(* machine, the six button handlers and the periodic update_time callback. *)
(*                                                                         *)
(* A datetime is an integer count of time units since midnight of day 0;   *)
(* a timedelta is an integer count of the same units.  One unit is         *)
(* 1/UnitsPerTick of the refresh interval that on_mount installs, so that  *)
(* a button can be pressed strictly between two refreshes.                 *)
(***************************************************************************)
EXTENDS Integers, Sequences, FiniteSets, TLC

VARIABLES self, now, since_tick, budget, hist

vars == <<self, now, since_tick, budget, hist>>

(* ------------------------------ bounds --------------------------------- *)
UnitsPerTick == 2
MaxElapse == 3
MaxPresses == 2
MaxScenarioEdits == 3
MaxMinutes == 1

(* ------------------------- program constants --------------------------- *)
TicksPerSecond == 10
HourMod == 24
MinuteMod == 60
AlarmHour == 7
DefaultTimerMinutes == 5
MinTimerMinutes == 1
MaxTimerMinutes == 99

(* --------------------- datetime / timedelta ---------------------------- *)
UnitsPerSecond == TicksPerSecond * UnitsPerTick
UnitsPerMinute == 60 * UnitsPerSecond
UnitsPerHour == 60 * UnitsPerMinute
UnitsPerDay == 24 * UnitsPerHour

None == -1

hour(t) == (t % UnitsPerDay) \div UnitsPerHour
minute(t) == (t % UnitsPerHour) \div UnitsPerMinute
second(t) == (t % UnitsPerMinute) \div UnitsPerSecond
microsecond(t) == t % UnitsPerSecond
date(t) == t \div UnitsPerDay

replace_hour(t, h) == t + (h - hour(t)) * UnitsPerHour
replace_minute(t, m) == t + (m - minute(t)) * UnitsPerMinute
replace_second(t, s) == t + (s - second(t)) * UnitsPerSecond
replace_microsecond(t, u) == t + (u - microsecond(t))

timedelta_minutes(n) == n * UnitsPerMinute

max(a, b) == IF a >= b THEN a ELSE b
min(a, b) == IF a <= b THEN a ELSE b

(* ------------------------------ ClockMode ------------------------------ *)
ClockMode == {"TIME", "SET_HOUR", "SET_MINUTE", "SET_SECOND", "ALARM",
              "SET_ALARM_HOUR", "SET_ALARM_MINUTE", "STOPWATCH", "TIMER"}

(* ------------------------------ __init__ ------------------------------- *)
init(t) ==
    [current_time      |-> t,
     display_time      |-> t,
     alarm_time        |-> replace_microsecond(replace_second(replace_minute(
                               replace_hour(t, AlarmHour), 0), 0), 0),
     alarm_enabled     |-> FALSE,
     mode              |-> "TIME",
     stopwatch_start   |-> None,
     stopwatch_elapsed |-> 0,
     stopwatch_running |-> FALSE,
     timer_duration    |-> timedelta_minutes(DefaultTimerMinutes),
     timer_start       |-> None,
     timer_running     |-> FALSE,
     blink_state       |-> TRUE,
     setting_blink     |-> FALSE]

(* ----------------------------- update_time ----------------------------- *)
(* self as update_display leaves it.  Everything update_display assigns is *)
(* a local of the call (time_str, display_time, hour_str, minute_str,      *)
(* second_str, date_str, status_parts, ...): display_time = self.alarm_time *)
(* binds the local display_time, not the attribute self.display_time.      *)
update_display_self(s, t) == s

(* mutant: the wall clock is read in every mode *)
update_time_any_mode(s, t) ==
    LET s1 == [s EXCEPT !.current_time = t, !.display_time = t]
        s2 == IF s1.stopwatch_running /\ s1.stopwatch_start # None
              THEN [s1 EXCEPT !.stopwatch_elapsed = t - s1.stopwatch_start]
              ELSE s1
        s3 == IF s2.timer_running /\ s2.timer_start # None
              THEN LET elapsed == t - s2.timer_start
                       remaining == s2.timer_duration - elapsed
                   IN  IF remaining <= 0
                       THEN [s2 EXCEPT !.timer_running = FALSE]
                       ELSE s2
              ELSE s2
        s4 == IF s3.mode \in {"SET_HOUR", "SET_MINUTE", "SET_SECOND",
                              "SET_ALARM_HOUR", "SET_ALARM_MINUTE"}
              THEN [s3 EXCEPT !.blink_state = ~s3.blink_state]
              ELSE s3
    IN  update_display_self(s4, t)

(* mutant: the blink phase is flipped in every mode *)
update_time_blinking_everywhere(s, t) ==
    LET s1 == IF s.mode = "TIME"
              THEN [s EXCEPT !.current_time = t, !.display_time = t]
              ELSE s
        s2 == IF s1.stopwatch_running /\ s1.stopwatch_start # None
              THEN [s1 EXCEPT !.stopwatch_elapsed = t - s1.stopwatch_start]
              ELSE s1
        s3 == IF s2.timer_running /\ s2.timer_start # None
              THEN LET elapsed == t - s2.timer_start
                       remaining == s2.timer_duration - elapsed
                   IN  IF remaining <= 0
                       THEN [s2 EXCEPT !.timer_running = FALSE]
                       ELSE s2
              ELSE s2
        s4 == [s3 EXCEPT !.blink_state = ~s3.blink_state]
    IN  update_display_self(s4, t)

(* mutant: the countdown is followed only while TIMER mode is shown *)
update_time_timer_shown_only(s, t) ==
    LET s1 == IF s.mode = "TIME"
              THEN [s EXCEPT !.current_time = t, !.display_time = t]
              ELSE s
        s2 == IF s1.stopwatch_running /\ s1.stopwatch_start # None
              THEN [s1 EXCEPT !.stopwatch_elapsed = t - s1.stopwatch_start]
              ELSE s1
        s3 == IF s2.mode = "TIMER" /\ s2.timer_running /\ s2.timer_start # None
              THEN LET elapsed == t - s2.timer_start
                       remaining == s2.timer_duration - elapsed
                   IN  IF remaining <= 0
                       THEN [s2 EXCEPT !.timer_running = FALSE]
                       ELSE s2
              ELSE s2
        s4 == IF s3.mode \in {"SET_HOUR", "SET_MINUTE", "SET_SECOND",
                              "SET_ALARM_HOUR", "SET_ALARM_MINUTE"}
              THEN [s3 EXCEPT !.blink_state = ~s3.blink_state]
              ELSE s3
    IN  update_display_self(s4, t)

(* mutant: in TIME mode the watch runs on from the time it holds *)
update_time_running_from_set_time(s, t) ==
    LET s1 == IF s.mode = "TIME"
              THEN [s EXCEPT !.current_time = s.current_time + UnitsPerTick,
                             !.display_time = s.current_time + UnitsPerTick]
              ELSE s
        s2 == IF s1.stopwatch_running /\ s1.stopwatch_start # None
              THEN [s1 EXCEPT !.stopwatch_elapsed = t - s1.stopwatch_start]
              ELSE s1
        s3 == IF s2.timer_running /\ s2.timer_start # None
              THEN LET elapsed == t - s2.timer_start
                       remaining == s2.timer_duration - elapsed
                   IN  IF remaining <= 0
                       THEN [s2 EXCEPT !.timer_running = FALSE]
                       ELSE s2
              ELSE s2
        s4 == IF s3.mode \in {"SET_HOUR", "SET_MINUTE", "SET_SECOND",
                              "SET_ALARM_HOUR", "SET_ALARM_MINUTE"}
              THEN [s3 EXCEPT !.blink_state = ~s3.blink_state]
              ELSE s3
    IN  update_display_self(s4, t)

(* mutant: the countdown is never looked at *)
update_time_not_expiring(s, t) ==
    LET s1 == IF s.mode = "TIME"
              THEN [s EXCEPT !.current_time = t, !.display_time = t]
              ELSE s
        s2 == IF s1.stopwatch_running /\ s1.stopwatch_start # None
              THEN [s1 EXCEPT !.stopwatch_elapsed = t - s1.stopwatch_start]
              ELSE s1
        s4 == IF s2.mode \in {"SET_HOUR", "SET_MINUTE", "SET_SECOND",
                              "SET_ALARM_HOUR", "SET_ALARM_MINUTE"}
              THEN [s2 EXCEPT !.blink_state = ~s2.blink_state]
              ELSE s2
    IN  update_display_self(s4, t)

(* mutant: the timer expires only once the remaining time is negative *)
update_time_expiring_late(s, t) ==
    LET s1 == IF s.mode = "TIME"
              THEN [s EXCEPT !.current_time = t, !.display_time = t]
              ELSE s
        s2 == IF s1.stopwatch_running /\ s1.stopwatch_start # None
              THEN [s1 EXCEPT !.stopwatch_elapsed = t - s1.stopwatch_start]
              ELSE s1
        s3 == IF s2.timer_running /\ s2.timer_start # None
              THEN LET elapsed == t - s2.timer_start
                       remaining == s2.timer_duration - elapsed
                   IN  IF remaining < 0
                       THEN [s2 EXCEPT !.timer_running = FALSE]
                       ELSE s2
              ELSE s2
        s4 == IF s3.mode \in {"SET_HOUR", "SET_MINUTE", "SET_SECOND",
                              "SET_ALARM_HOUR", "SET_ALARM_MINUTE"}
              THEN [s3 EXCEPT !.blink_state = ~s3.blink_state]
              ELSE s3
    IN  update_display_self(s4, t)

update_time(s, t) ==
    LET s1 == IF s.mode = "TIME"
              THEN [s EXCEPT !.current_time = t, !.display_time = t]
              ELSE s
        s2 == IF s1.stopwatch_running /\ s1.stopwatch_start # None
              THEN [s1 EXCEPT !.stopwatch_elapsed = t - s1.stopwatch_start]
              ELSE s1
        s3 == IF s2.timer_running /\ s2.timer_start # None
              THEN LET elapsed == t - s2.timer_start
                       remaining == s2.timer_duration - elapsed
                   IN  IF remaining <= 0
                       THEN [s2 EXCEPT !.timer_running = FALSE]
                       ELSE s2
              ELSE s2
        s4 == IF s3.mode \in {"SET_HOUR", "SET_MINUTE", "SET_SECOND",
                              "SET_ALARM_HOUR", "SET_ALARM_MINUTE"}
              THEN [s3 EXCEPT !.blink_state = ~s3.blink_state]
              ELSE s3
    IN  update_display_self(s4, t)

(* ---------------------------- update_display --------------------------- *)
(* The text the four Static/EnGlyphText widgets are updated with, as a     *)
(* function of the state and the wall clock.  update_display assigns no    *)
(* attribute of self and nothing reads the widgets back, so what is on     *)
(* the screen is this value at the latest mount or refresh.                *)
Digit == <<"0", "1", "2", "3", "4", "5", "6", "7", "8", "9">>

RECURSIVE str(_)
str(n) == IF n < 10 THEN Digit[n + 1] ELSE str(n \div 10) \o Digit[(n % 10) + 1]

(* f"{n:02d}" *)
fmt02d(n) == IF n < 10 THEN "0" \o str(n) ELSE str(n)

total_seconds(d) == d \div UnitsPerSecond

(* ClockMode.value *)
value(m) ==
    CASE m = "TIME" -> "TIME"
      [] m = "SET_HOUR" -> "SET HOUR"
      [] m = "SET_MINUTE" -> "SET MINUTE"
      [] m = "SET_SECOND" -> "SET SECOND"
      [] m = "ALARM" -> "ALARM"
      [] m = "SET_ALARM_HOUR" -> "SET ALARM HOUR"
      [] m = "SET_ALARM_MINUTE" -> "SET ALARM MINUTE"
      [] m = "STOPWATCH" -> "STOPWATCH"
      [] m = "TIMER" -> "TIMER"

(* strftime("%A, %B %d, %Y"): a text that names the calendar day *)
strftime(t) == "day " \o str(date(t))

RECURSIVE join(_, _)
join(sep, parts) ==
    IF parts = <<>> THEN ""
    ELSE IF Len(parts) = 1 THEN parts[1]
    ELSE parts[1] \o sep \o join(sep, Tail(parts))

(* mutant: the whole time is blanked, not the field being set *)
update_display_blanking_all(s, t) ==
    LET time_str ==
          IF s.mode = "STOPWATCH"
          THEN LET secs == total_seconds(s.stopwatch_elapsed)
                   minutes == secs \div 60
                   seconds == secs % 60
                   hundredths == ((s.stopwatch_elapsed % UnitsPerSecond) * 100)
                                     \div UnitsPerSecond
               IN  fmt02d(minutes) \o ":" \o fmt02d(seconds) \o "." \o fmt02d(hundredths)
          ELSE IF s.mode = "TIMER"
          THEN IF s.timer_running /\ s.timer_start # None
               THEN LET elapsed == t - s.timer_start
                        remaining == s.timer_duration - elapsed
                    IN  IF remaining > 0
                        THEN LET secs == total_seconds(remaining)
                             IN  fmt02d(secs \div 60) \o ":" \o fmt02d(secs % 60)
                        ELSE "00:00"
               ELSE LET secs == total_seconds(s.timer_duration)
                    IN  fmt02d(secs \div 60) \o ":" \o fmt02d(secs % 60)
          ELSE IF s.mode \in {"ALARM", "SET_ALARM_HOUR", "SET_ALARM_MINUTE"}
          THEN LET hour_str == IF s.mode = "SET_ALARM_HOUR" /\ ~s.blink_state
                               THEN "  " ELSE fmt02d(hour(s.alarm_time))
                   minute_str == IF s.mode = "SET_ALARM_MINUTE" /\ ~s.blink_state
                                 THEN "  " ELSE fmt02d(minute(s.alarm_time))
               IN  hour_str \o ":" \o minute_str
          ELSE LET hour_str == IF s.mode = "SET_HOUR" /\ ~s.blink_state
                               THEN "  " ELSE fmt02d(hour(s.display_time))
                   minute_str == IF s.mode = "SET_MINUTE" /\ ~s.blink_state
                                 THEN "  " ELSE fmt02d(minute(s.display_time))
                   second_str == IF s.mode = "SET_SECOND" /\ ~s.blink_state
                                 THEN "  " ELSE fmt02d(second(s.display_time))
               IN  IF s.mode \in {"SET_HOUR", "SET_MINUTE", "SET_SECOND"}
                      /\ ~s.blink_state
                   THEN "  :  :  "
                   ELSE hour_str \o ":" \o minute_str \o ":" \o second_str
        date_str == IF s.mode \notin {"STOPWATCH", "TIMER"}
                    THEN strftime(s.current_time)
                    ELSE ""
        status_parts ==
            (IF s.alarm_enabled THEN <<"ALM">> ELSE <<>>)
            \o (IF s.stopwatch_running THEN <<"SW">> ELSE <<>>)
            \o (IF s.timer_running THEN <<"TMR">> ELSE <<>>)
    IN  [time_display |-> time_str,
         date_display |-> date_str,
         mode_display |-> "Mode: " \o value(s.mode),
         status_info  |-> join(" | ", status_parts)]

update_display(s, t) ==
    LET time_str ==
          IF s.mode = "STOPWATCH"
          THEN LET secs == total_seconds(s.stopwatch_elapsed)
                   minutes == secs \div 60
                   seconds == secs % 60
                   hundredths == ((s.stopwatch_elapsed % UnitsPerSecond) * 100)
                                     \div UnitsPerSecond
               IN  fmt02d(minutes) \o ":" \o fmt02d(seconds) \o "." \o fmt02d(hundredths)
          ELSE IF s.mode = "TIMER"
          THEN IF s.timer_running /\ s.timer_start # None
               THEN LET elapsed == t - s.timer_start
                        remaining == s.timer_duration - elapsed
                    IN  IF remaining > 0
                        THEN LET secs == total_seconds(remaining)
                             IN  fmt02d(secs \div 60) \o ":" \o fmt02d(secs % 60)
                        ELSE "00:00"
               ELSE LET secs == total_seconds(s.timer_duration)
                    IN  fmt02d(secs \div 60) \o ":" \o fmt02d(secs % 60)
          ELSE IF s.mode \in {"ALARM", "SET_ALARM_HOUR", "SET_ALARM_MINUTE"}
          THEN LET hour_str == IF s.mode = "SET_ALARM_HOUR" /\ ~s.blink_state
                               THEN "  " ELSE fmt02d(hour(s.alarm_time))
                   minute_str == IF s.mode = "SET_ALARM_MINUTE" /\ ~s.blink_state
                                 THEN "  " ELSE fmt02d(minute(s.alarm_time))
               IN  hour_str \o ":" \o minute_str
          ELSE LET hour_str == IF s.mode = "SET_HOUR" /\ ~s.blink_state
                               THEN "  " ELSE fmt02d(hour(s.display_time))
                   minute_str == IF s.mode = "SET_MINUTE" /\ ~s.blink_state
                                 THEN "  " ELSE fmt02d(minute(s.display_time))
                   second_str == IF s.mode = "SET_SECOND" /\ ~s.blink_state
                                 THEN "  " ELSE fmt02d(second(s.display_time))
               IN  hour_str \o ":" \o minute_str \o ":" \o second_str
        date_str == IF s.mode \notin {"STOPWATCH", "TIMER"}
                    THEN strftime(s.current_time)
                    ELSE ""
        status_parts ==
            (IF s.alarm_enabled THEN <<"ALM">> ELSE <<>>)
            \o (IF s.stopwatch_running THEN <<"SW">> ELSE <<>>)
            \o (IF s.timer_running THEN <<"TMR">> ELSE <<>>)
    IN  [time_display |-> time_str,
         date_display |-> date_str,
         mode_display |-> "Mode: " \o value(s.mode),
         status_info  |-> join(" | ", status_parts)]

(* ----------------------------- cycle_mode ------------------------------ *)
(* mutant: ALARM and STOPWATCH swapped in the cycle *)
modes_swapped == <<"TIME", "STOPWATCH", "ALARM", "TIMER">>

modes == <<"TIME", "ALARM", "STOPWATCH", "TIMER">>

(* mutant: the ValueError branch leaves the mode alone *)
cycle_mode_stays(s) ==
    IF \E i \in 1..Len(modes) : modes[i] = s.mode
    THEN LET current_index == (CHOOSE i \in 1..Len(modes) : modes[i] = s.mode) - 1
         IN  [s EXCEPT !.mode = modes[((current_index + 1) % Len(modes)) + 1]]
    ELSE s

cycle_mode(s) ==
    IF \E i \in 1..Len(modes) : modes[i] = s.mode
    THEN LET current_index == (CHOOSE i \in 1..Len(modes) : modes[i] = s.mode) - 1
         IN  [s EXCEPT !.mode = modes[((current_index + 1) % Len(modes)) + 1]]
    ELSE [s EXCEPT !.mode = "TIME"]

(* ----------------------------- handle_set ------------------------------ *)
(* mutant: the alarm is not enabled on leaving SET_ALARM_MINUTE *)
handle_set_not_enabling(s) ==
    CASE s.mode = "TIME" ->
           [s EXCEPT !.mode = "SET_HOUR", !.display_time = s.current_time]
      [] s.mode = "SET_HOUR" -> [s EXCEPT !.mode = "SET_MINUTE"]
      [] s.mode = "SET_MINUTE" -> [s EXCEPT !.mode = "SET_SECOND"]
      [] s.mode = "SET_SECOND" ->
           [s EXCEPT !.current_time = s.display_time, !.mode = "TIME"]
      [] s.mode = "ALARM" -> [s EXCEPT !.mode = "SET_ALARM_HOUR"]
      [] s.mode = "SET_ALARM_HOUR" -> [s EXCEPT !.mode = "SET_ALARM_MINUTE"]
      [] s.mode = "SET_ALARM_MINUTE" ->
           [s EXCEPT !.mode = "ALARM"]
      [] OTHER -> s

(* mutant: SET_HOUR goes straight to SET_SECOND *)
handle_set_skipping(s) ==
    CASE s.mode = "TIME" ->
           [s EXCEPT !.mode = "SET_HOUR", !.display_time = s.current_time]
      [] s.mode = "SET_HOUR" -> [s EXCEPT !.mode = "SET_SECOND"]
      [] s.mode = "SET_MINUTE" -> [s EXCEPT !.mode = "SET_SECOND"]
      [] s.mode = "SET_SECOND" ->
           [s EXCEPT !.current_time = s.display_time, !.mode = "TIME"]
      [] s.mode = "ALARM" -> [s EXCEPT !.mode = "SET_ALARM_HOUR"]
      [] s.mode = "SET_ALARM_HOUR" -> [s EXCEPT !.mode = "SET_ALARM_MINUTE"]
      [] s.mode = "SET_ALARM_MINUTE" ->
           [s EXCEPT !.alarm_enabled = TRUE, !.mode = "ALARM"]
      [] OTHER -> s

(* mutant: leaving SET_SECOND does not commit display_time *)
handle_set_not_committing(s) ==
    CASE s.mode = "TIME" ->
           [s EXCEPT !.mode = "SET_HOUR", !.display_time = s.current_time]
      [] s.mode = "SET_HOUR" -> [s EXCEPT !.mode = "SET_MINUTE"]
      [] s.mode = "SET_MINUTE" -> [s EXCEPT !.mode = "SET_SECOND"]
      [] s.mode = "SET_SECOND" ->
           [s EXCEPT !.mode = "TIME"]
      [] s.mode = "ALARM" -> [s EXCEPT !.mode = "SET_ALARM_HOUR"]
      [] s.mode = "SET_ALARM_HOUR" -> [s EXCEPT !.mode = "SET_ALARM_MINUTE"]
      [] s.mode = "SET_ALARM_MINUTE" ->
           [s EXCEPT !.alarm_enabled = TRUE, !.mode = "ALARM"]
      [] OTHER -> s

handle_set(s) ==
    CASE s.mode = "TIME" ->
           [s EXCEPT !.mode = "SET_HOUR", !.display_time = s.current_time]
      [] s.mode = "SET_HOUR" -> [s EXCEPT !.mode = "SET_MINUTE"]
      [] s.mode = "SET_MINUTE" -> [s EXCEPT !.mode = "SET_SECOND"]
      [] s.mode = "SET_SECOND" ->
           [s EXCEPT !.current_time = s.display_time, !.mode = "TIME"]
      [] s.mode = "ALARM" -> [s EXCEPT !.mode = "SET_ALARM_HOUR"]
      [] s.mode = "SET_ALARM_HOUR" -> [s EXCEPT !.mode = "SET_ALARM_MINUTE"]
      [] s.mode = "SET_ALARM_MINUTE" ->
           [s EXCEPT !.alarm_enabled = TRUE, !.mode = "ALARM"]
      [] OTHER -> s

(* ----------------------------- handle_prev ----------------------------- *)
handle_prev(s) ==
    CASE s.mode = "SET_HOUR" ->
           [s EXCEPT !.display_time =
               replace_hour(s.display_time, (hour(s.display_time) - 1) % HourMod)]
      [] s.mode = "SET_MINUTE" ->
           [s EXCEPT !.display_time =
               replace_minute(s.display_time, (minute(s.display_time) - 1) % MinuteMod)]
      [] s.mode = "SET_SECOND" ->
           [s EXCEPT !.display_time =
               replace_second(s.display_time, (second(s.display_time) - 1) % MinuteMod)]
      [] s.mode = "SET_ALARM_HOUR" ->
           [s EXCEPT !.alarm_time =
               replace_hour(s.alarm_time, (hour(s.alarm_time) - 1) % HourMod)]
      [] s.mode = "SET_ALARM_MINUTE" ->
           [s EXCEPT !.alarm_time =
               replace_minute(s.alarm_time, (minute(s.alarm_time) - 1) % MinuteMod)]
      [] s.mode = "TIMER" ->
           LET current_minutes == s.timer_duration \div UnitsPerMinute
               new_minutes == max(MinTimerMinutes, current_minutes - 1)
           IN  [s EXCEPT !.timer_duration = timedelta_minutes(new_minutes)]
      [] OTHER -> s

(* ----------------------------- handle_next ----------------------------- *)
(* mutant: SET_MINUTE writes the hour field *)
handle_next_wrong_field(s) ==
    CASE s.mode = "SET_HOUR" ->
           [s EXCEPT !.display_time =
               replace_hour(s.display_time, (hour(s.display_time) + 1) % HourMod)]
      [] s.mode = "SET_MINUTE" ->
           [s EXCEPT !.display_time =
               replace_hour(s.display_time, (minute(s.display_time) + 1) % MinuteMod)]
      [] s.mode = "SET_SECOND" ->
           [s EXCEPT !.display_time =
               replace_second(s.display_time, (second(s.display_time) + 1) % MinuteMod)]
      [] s.mode = "SET_ALARM_HOUR" ->
           [s EXCEPT !.alarm_time =
               replace_hour(s.alarm_time, (hour(s.alarm_time) + 1) % HourMod)]
      [] s.mode = "SET_ALARM_MINUTE" ->
           [s EXCEPT !.alarm_time =
               replace_minute(s.alarm_time, (minute(s.alarm_time) + 1) % MinuteMod)]
      [] s.mode = "TIMER" ->
           LET current_minutes == s.timer_duration \div UnitsPerMinute
               new_minutes == min(MaxTimerMinutes, current_minutes + 1)
           IN  [s EXCEPT !.timer_duration = timedelta_minutes(new_minutes)]
      [] OTHER -> s

(* mutant: no upper clamp on the timer duration *)
handle_next_unclamped(s) ==
    CASE s.mode = "SET_HOUR" ->
           [s EXCEPT !.display_time =
               replace_hour(s.display_time, (hour(s.display_time) + 1) % HourMod)]
      [] s.mode = "SET_MINUTE" ->
           [s EXCEPT !.display_time =
               replace_minute(s.display_time, (minute(s.display_time) + 1) % MinuteMod)]
      [] s.mode = "SET_SECOND" ->
           [s EXCEPT !.display_time =
               replace_second(s.display_time, (second(s.display_time) + 1) % MinuteMod)]
      [] s.mode = "SET_ALARM_HOUR" ->
           [s EXCEPT !.alarm_time =
               replace_hour(s.alarm_time, (hour(s.alarm_time) + 1) % HourMod)]
      [] s.mode = "SET_ALARM_MINUTE" ->
           [s EXCEPT !.alarm_time =
               replace_minute(s.alarm_time, (minute(s.alarm_time) + 1) % MinuteMod)]
      [] s.mode = "TIMER" ->
           LET current_minutes == s.timer_duration \div UnitsPerMinute
               new_minutes == current_minutes + 1
           IN  [s EXCEPT !.timer_duration = timedelta_minutes(new_minutes)]
      [] OTHER -> s

handle_next(s) ==
    CASE s.mode = "SET_HOUR" ->
           [s EXCEPT !.display_time =
               replace_hour(s.display_time, (hour(s.display_time) + 1) % HourMod)]
      [] s.mode = "SET_MINUTE" ->
           [s EXCEPT !.display_time =
               replace_minute(s.display_time, (minute(s.display_time) + 1) % MinuteMod)]
      [] s.mode = "SET_SECOND" ->
           [s EXCEPT !.display_time =
               replace_second(s.display_time, (second(s.display_time) + 1) % MinuteMod)]
      [] s.mode = "SET_ALARM_HOUR" ->
           [s EXCEPT !.alarm_time =
               replace_hour(s.alarm_time, (hour(s.alarm_time) + 1) % HourMod)]
      [] s.mode = "SET_ALARM_MINUTE" ->
           [s EXCEPT !.alarm_time =
               replace_minute(s.alarm_time, (minute(s.alarm_time) + 1) % MinuteMod)]
      [] s.mode = "TIMER" ->
           LET current_minutes == s.timer_duration \div UnitsPerMinute
               new_minutes == min(MaxTimerMinutes, current_minutes + 1)
           IN  [s EXCEPT !.timer_duration = timedelta_minutes(new_minutes)]
      [] OTHER -> s

(* -------------------------- handle_start_stop -------------------------- *)
(* mutant: a resumed stopwatch counts from the resume *)
handle_start_stop_resume_from_now(s, t) ==
    CASE s.mode = "STOPWATCH" ->
           IF s.stopwatch_running
           THEN [s EXCEPT !.stopwatch_running = FALSE]
           ELSE IF s.stopwatch_start = None
                THEN [s EXCEPT !.stopwatch_start = t,
                               !.stopwatch_elapsed = 0,
                               !.stopwatch_running = TRUE]
                ELSE [s EXCEPT !.stopwatch_start = t,
                               !.stopwatch_running = TRUE]
      [] s.mode = "TIMER" ->
           IF s.timer_running
           THEN [s EXCEPT !.timer_running = FALSE]
           ELSE [s EXCEPT !.timer_start = t, !.timer_running = TRUE]
      [] s.mode = "ALARM" -> [s EXCEPT !.alarm_enabled = ~s.alarm_enabled]
      [] OTHER -> s

(* mutant: starting the timer does not record when *)
handle_start_stop_unstamped_timer(s, t) ==
    CASE s.mode = "STOPWATCH" ->
           IF s.stopwatch_running
           THEN [s EXCEPT !.stopwatch_running = FALSE]
           ELSE IF s.stopwatch_start = None
                THEN [s EXCEPT !.stopwatch_start = t,
                               !.stopwatch_elapsed = 0,
                               !.stopwatch_running = TRUE]
                ELSE [s EXCEPT !.stopwatch_start = t - s.stopwatch_elapsed,
                               !.stopwatch_running = TRUE]
      [] s.mode = "TIMER" ->
           IF s.timer_running
           THEN [s EXCEPT !.timer_running = FALSE]
           ELSE [s EXCEPT !.timer_running = TRUE]
      [] s.mode = "ALARM" -> [s EXCEPT !.alarm_enabled = ~s.alarm_enabled]
      [] OTHER -> s

(* mutant: stopping the timer forgets when it was started *)
handle_start_stop_clearing_timer_start(s, t) ==
    CASE s.mode = "STOPWATCH" ->
           IF s.stopwatch_running
           THEN [s EXCEPT !.stopwatch_running = FALSE]
           ELSE IF s.stopwatch_start = None
                THEN [s EXCEPT !.stopwatch_start = t,
                               !.stopwatch_elapsed = 0,
                               !.stopwatch_running = TRUE]
                ELSE [s EXCEPT !.stopwatch_start = t - s.stopwatch_elapsed,
                               !.stopwatch_running = TRUE]
      [] s.mode = "TIMER" ->
           IF s.timer_running
           THEN [s EXCEPT !.timer_running = FALSE, !.timer_start = None]
           ELSE [s EXCEPT !.timer_start = t, !.timer_running = TRUE]
      [] s.mode = "ALARM" -> [s EXCEPT !.alarm_enabled = ~s.alarm_enabled]
      [] OTHER -> s

handle_start_stop(s, t) ==
    CASE s.mode = "STOPWATCH" ->
           IF s.stopwatch_running
           THEN [s EXCEPT !.stopwatch_running = FALSE]
           ELSE IF s.stopwatch_start = None
                THEN [s EXCEPT !.stopwatch_start = t,
                               !.stopwatch_elapsed = 0,
                               !.stopwatch_running = TRUE]
                ELSE [s EXCEPT !.stopwatch_start = t - s.stopwatch_elapsed,
                               !.stopwatch_running = TRUE]
      [] s.mode = "TIMER" ->
           IF s.timer_running
           THEN [s EXCEPT !.timer_running = FALSE]
           ELSE [s EXCEPT !.timer_start = t, !.timer_running = TRUE]
      [] s.mode = "ALARM" -> [s EXCEPT !.alarm_enabled = ~s.alarm_enabled]
      [] OTHER -> s

(* ----------------------------- handle_light ---------------------------- *)
(* mutant: the stopwatch is reset even while it runs *)
handle_light_while_running(s) ==
    CASE s.mode = "STOPWATCH" ->
           [s EXCEPT !.stopwatch_start = None, !.stopwatch_elapsed = 0]
      [] s.mode = "TIMER" /\ ~s.timer_running ->
           [s EXCEPT !.timer_duration = timedelta_minutes(DefaultTimerMinutes)]
      [] OTHER -> s

(* mutant: the timer's reset also forgets when it was started *)
handle_light_clearing_timer_start(s) ==
    CASE s.mode = "STOPWATCH" /\ ~s.stopwatch_running ->
           [s EXCEPT !.stopwatch_start = None, !.stopwatch_elapsed = 0]
      [] s.mode = "TIMER" /\ ~s.timer_running ->
           [s EXCEPT !.timer_duration = timedelta_minutes(DefaultTimerMinutes),
                     !.timer_start = None]
      [] OTHER -> s

handle_light(s) ==
    CASE s.mode = "STOPWATCH" /\ ~s.stopwatch_running ->
           [s EXCEPT !.stopwatch_start = None, !.stopwatch_elapsed = 0]
      [] s.mode = "TIMER" /\ ~s.timer_running ->
           [s EXCEPT !.timer_duration = timedelta_minutes(DefaultTimerMinutes)]
      [] OTHER -> s

(* ------------------- bookkeeping of the environment -------------------- *)
(* budget bounds the exploration: wall-clock units still to elapse one by  *)
(* one, the PREV/NEXT presses in a setting sub-mode and the PREV/NEXT/     *)
(* START-STOP presses in STOPWATCH and TIMER still to come, whether the    *)
(* latter are explored at all, and the whole minutes a timer in its last   *)
(* minute may still be left alone for.  hist records facts about the past  *)
(* that multi-step properties refer to.                                    *)
Setting == {"SET_HOUR", "SET_MINUTE", "SET_SECOND",
            "SET_ALARM_HOUR", "SET_ALARM_MINUTE"}
TimeSetting == {"SET_HOUR", "SET_MINUTE", "SET_SECOND"}
TopLevel == {"TIME", "ALARM", "STOPWATCH", "TIMER"}

StartTimes == {UnitsPerDay - UnitsPerTick}

NoHist == [abandoned |-> FALSE, set_run |-> 0, set_base |-> None, sw_t0 |-> None,
           sw_first |-> None, sw_paused |-> None, sw_resumed |-> None,
           committed |-> None]

EndRun(h) == IF h.set_run = 0 THEN h
             ELSE [h EXCEPT !.set_run = 0, !.set_base = None]

(* a press other than the SET that commits an edited time *)
Forget(h) == [h EXCEPT !.committed = None]

Timed == {"STOPWATCH", "TIMER"}

CanPress == /\ self.mode \in Setting => budget.presses > 0
            /\ self.mode \in Timed => budget.presses > 0 /\ budget.instruments

Pressed == IF self.mode \in Setting \cup Timed
           THEN [budget EXCEPT !.presses = @ - 1]
           ELSE budget

(* ------------------------------- Init ---------------------------------- *)
Init ==
    /\ now \in StartTimes
    /\ self = init(now)
    /\ since_tick = 0
    /\ budget = [time |-> MaxElapse, presses |-> MaxPresses,
                 instruments |-> TRUE, minutes |-> 0]
    /\ hist = NoHist

(* ------------------------ wall clock advancing ------------------------- *)
Advance ==
    /\ budget.time > 0
    /\ since_tick < UnitsPerTick
    /\ now' = now + 1
    /\ since_tick' = since_tick + 1
    /\ budget' = [budget EXCEPT !.time = @ - 1]
    /\ UNCHANGED <<self, hist>>

(* --------------- set_interval(1/10, self.update_time) ------------------ *)
(* update_time ends by handing update_display(self', now) to the widgets.  *)
Tick ==
    /\ since_tick = UnitsPerTick
    /\ self' = update_time(self, now)
    /\ since_tick' = 0
    /\ hist' = [(IF hist.set_run = 4 THEN EndRun(hist) ELSE hist)
                   EXCEPT !.abandoned = IF self.mode = "TIME" THEN FALSE ELSE @]
    /\ UNCHANGED <<now, budget>>

(* ------------------ on_button_pressed, one per button ------------------ *)
OnMode ==
    /\ self' = cycle_mode(self)
    /\ hist' = [Forget(EndRun(hist)) EXCEPT
                   !.abandoned = IF self.mode \in TimeSetting THEN TRUE ELSE @]
    /\ UNCHANGED <<now, since_tick, budget>>

OnSet ==
    /\ self' = handle_set(self)
    /\ hist' = [hist EXCEPT
                   !.abandoned = IF self.mode = "TIME" THEN FALSE ELSE @,
                   !.set_run = IF self.mode = "TIME" THEN 1
                               ELSE IF @ \in 1..3 THEN @ + 1 ELSE 0,
                   !.set_base = IF self.mode = "TIME" THEN self.current_time
                                ELSE IF hist.set_run \in 1..3 THEN @ ELSE None,
                   !.committed = IF self.mode = "SET_SECOND"
                                    /\ self.display_time # self.current_time
                                 THEN self.display_time ELSE None]
    /\ UNCHANGED <<now, since_tick, budget>>

OnPrev ==
    /\ CanPress
    /\ self' = handle_prev(self)
    /\ budget' = Pressed
    /\ hist' = Forget(EndRun(hist))
    /\ UNCHANGED <<now, since_tick>>

OnNext ==
    /\ CanPress
    /\ self' = handle_next(self)
    /\ budget' = Pressed
    /\ hist' = Forget(EndRun(hist))
    /\ UNCHANGED <<now, since_tick>>

OnStartStop ==
    /\ CanPress
    /\ self' = handle_start_stop(self, now)
    /\ budget' = Pressed
    /\ hist' = IF self.mode = "STOPWATCH" /\ ~self.stopwatch_running
               THEN [Forget(EndRun(hist)) EXCEPT
                       !.sw_t0 = IF self.stopwatch_start = None THEN now ELSE None,
                       !.sw_first = IF self.stopwatch_start = None THEN now ELSE @,
                       !.sw_paused = IF self.stopwatch_start = None THEN None
                                     ELSE self.stopwatch_elapsed,
                       !.sw_resumed = IF self.stopwatch_start = None THEN None
                                      ELSE now]
               ELSE Forget(EndRun(hist))
    /\ UNCHANGED <<now, since_tick>>

OnLight ==
    /\ self' = handle_light(self)
    /\ hist' = IF self.mode = "STOPWATCH" /\ ~self.stopwatch_running
               THEN [Forget(EndRun(hist)) EXCEPT
                       !.sw_t0 = None, !.sw_first = None,
                       !.sw_paused = None, !.sw_resumed = None]
               ELSE Forget(EndRun(hist))
    /\ UNCHANGED <<now, since_tick, budget>>

Next ==
    \/ Advance
    \/ Tick
    \/ OnMode
    \/ OnSet
    \/ OnPrev
    \/ OnNext
    \/ OnStartStop
    \/ OnLight

Spec == Init /\ [][Next]_vars

(* Editing runs: one refresh interval, PREV/NEXT presses spent in the      *)
(* setting sub-modes only, stopwatch and timer left alone.                 *)
InitEdit ==
    /\ now \in StartTimes
    /\ self = init(now)
    /\ since_tick = 0
    /\ budget = [time |-> UnitsPerTick, presses |-> MaxPresses,
                 instruments |-> FALSE, minutes |-> 0]
    /\ hist = NoHist

SpecEdit == InitEdit /\ [][Next]_vars

(* The same with enough presses for three NEXT presses in a row.           *)
InitScenario ==
    /\ now \in StartTimes
    /\ self = init(now)
    /\ since_tick = 0
    /\ budget = [time |-> UnitsPerTick, presses |-> MaxScenarioEdits,
                 instruments |-> FALSE, minutes |-> 0]
    /\ hist = NoHist

SpecScenario == InitScenario /\ [][Next]_vars

(* Timer-duration runs: the duration starts next to either end of its      *)
(* range (as left there by earlier PREV/NEXT presses in TIMER mode).       *)
DurStarts == {MinTimerMinutes + 1, DefaultTimerMinutes, MaxTimerMinutes - 1}

InitDur ==
    /\ now \in StartTimes
    /\ \E d \in DurStarts :
          self = [init(now) EXCEPT !.timer_duration = timedelta_minutes(d)]
    /\ since_tick = 0
    /\ budget = [time |-> UnitsPerTick, presses |-> MaxPresses,
                 instruments |-> TRUE, minutes |-> MaxMinutes]
    /\ hist = NoHist

(* A minute in which no button is pressed: 60 * TicksPerSecond refreshes   *)
(* in a row, each one refresh interval after the one before: the first h   *)
(* of the k refreshes, then, from the state they end in, the other k - h.  *)
RECURSIVE refreshes(_, _, _)
refreshes(s, t, k) ==
    IF k = 0 THEN s
    ELSE IF k = 1 THEN update_time(s, t + UnitsPerTick)
    ELSE LET h == k \div 2
         IN  CHOOSE r \in {refreshes(half, t + h * UnitsPerTick, k - h) :
                              half \in {refreshes(s, t, h)}} : TRUE

Minute ==
    /\ budget.minutes > 0
    /\ since_tick = 0
    /\ self.timer_running
    /\ self.timer_duration - (now - self.timer_start) <= UnitsPerMinute
    /\ self' = refreshes(self, now, 60 * TicksPerSecond)
    /\ now' = now + UnitsPerMinute
    /\ budget' = [budget EXCEPT !.minutes = @ - 1]
    /\ hist' = [(IF hist.set_run = 4 THEN EndRun(hist) ELSE hist)
                   EXCEPT !.abandoned = IF self.mode = "TIME" THEN FALSE ELSE @]
    /\ UNCHANGED since_tick

NextDur ==
    \/ Next
    \/ Minute

SpecDur == InitDur /\ [][NextDur]_vars

(* Countdown runs: the duration starts at its least value (as left there  *)
(* by earlier PREV presses in TIMER mode), only MODE and START/STOP are    *)
(* pressed, and a running timer may be left alone until the last refresh   *)
(* before its minute is over, the wall clock then advancing unit by unit   *)
(* across the expiry.                                                      *)
InitExpiry ==
    /\ now \in StartTimes
    /\ self = [init(now) EXCEPT
                  !.timer_duration = timedelta_minutes(MinTimerMinutes)]
    /\ since_tick = 0
    /\ budget = [time |-> 2 * UnitsPerTick, presses |-> MaxPresses,
                 instruments |-> TRUE, minutes |-> MinTimerMinutes]
    /\ hist = NoHist

Wait ==
    /\ budget.minutes > 0
    /\ since_tick = 0
    /\ self.timer_running
    /\ self' = refreshes(self, now, 60 * TicksPerSecond - 1)
    /\ now' = now + UnitsPerMinute - UnitsPerTick
    /\ budget' = [budget EXCEPT !.minutes = @ - 1]
    /\ hist' = [(IF hist.set_run = 4 THEN EndRun(hist) ELSE hist)
                   EXCEPT !.abandoned = IF self.mode = "TIME" THEN FALSE ELSE @]
    /\ UNCHANGED since_tick

NextExpiry ==
    \/ Advance
    \/ Tick
    \/ OnMode
    \/ OnStartStop
    \/ Wait

SpecExpiry == InitExpiry /\ [][NextExpiry]_vars

(* Background runs: SET is pressed too, so that the stopwatch and the      *)
(* timer run while the setting sub-modes are shown; one refresh interval   *)
(* unit by unit and one press less.                                        *)
InitBackground ==
    /\ now \in StartTimes
    /\ self = [init(now) EXCEPT
                  !.timer_duration = timedelta_minutes(MinTimerMinutes)]
    /\ since_tick = 0
    /\ budget = [time |-> UnitsPerTick, presses |-> MaxPresses - 1,
                 instruments |-> TRUE, minutes |-> MinTimerMinutes]
    /\ hist = NoHist

NextBackground ==
    \/ NextExpiry
    \/ OnSet

SpecBackground == InitBackground /\ [][NextBackground]_vars

(* Runs in which the scheduler keeps calling update_time: no unit-by-unit  *)
(* budget; while a timer runs that has time left, the wall clock advances  *)
(* a minute of refreshes at a time, between button presses, and a step     *)
(* that stays possible is eventually taken.                                *)
InitLive ==
    /\ now \in StartTimes
    /\ self = init(now)
    /\ since_tick = 0
    /\ budget = [time |-> 0, presses |-> MaxPresses - 1,
                 instruments |-> TRUE, minutes |-> 0]
    /\ hist = NoHist

Elapse ==
    /\ since_tick = 0
    /\ self.timer_running
    /\ now - self.timer_start < self.timer_duration
    /\ self' = refreshes(self, now, 60 * TicksPerSecond)
    /\ now' = now + UnitsPerMinute
    /\ hist' = [(IF hist.set_run = 4 THEN EndRun(hist) ELSE hist)
                   EXCEPT !.abandoned = IF self.mode = "TIME" THEN FALSE ELSE @]
    /\ UNCHANGED <<since_tick, budget>>

NextLive ==
    \/ Elapse
    \/ OnMode
    \/ OnSet
    \/ OnStartStop

(* WF_vars(Elapse), with ENABLED <<Elapse>>_vars and <<Elapse>>_vars       *)
(* written out: Elapse is possible exactly in the states of its guard,     *)
(* and it is the one step of NextLive that moves the wall clock.           *)
ElapseEnabled ==
    /\ since_tick = 0
    /\ self.timer_running
    /\ now - self.timer_start < self.timer_duration

ElapseFair ==
    \/ []<>~ElapseEnabled
    \/ []<><<now' = now + UnitsPerMinute>>_vars

SpecLive == InitLive /\ [][NextLive]_vars /\ ElapseFair

(* Stopwatch runs: two refresh intervals and one press more, spent on     *)
(* MODE, START/STOP and LIGHT, so that a stopwatch can be started, paused, *)
(* left idle and resumed.                                                  *)
InitSw ==
    /\ now \in StartTimes
    /\ self = init(now)
    /\ since_tick = 0
    /\ budget = [time |-> 2 * UnitsPerTick, presses |-> MaxPresses + 1,
                 instruments |-> TRUE, minutes |-> 0]
    /\ hist = NoHist

NextSw ==
    \/ Advance
    \/ Tick
    \/ OnMode
    \/ OnStartStop
    \/ OnLight

SpecSw == InitSw /\ [][NextSw]_vars

(* Reset runs: the same presses, from a timer duration at either end of   *)
(* its range (as left there by earlier PREV/NEXT presses in TIMER mode).   *)
ResetDurs == {MinTimerMinutes, MaxTimerMinutes}

InitReset ==
    /\ now \in StartTimes
    /\ \E d \in ResetDurs :
          self = [init(now) EXCEPT !.timer_duration = timedelta_minutes(d)]
    /\ since_tick = 0
    /\ budget = [time |-> UnitsPerTick, presses |-> MaxPresses,
                 instruments |-> TRUE, minutes |-> 0]
    /\ hist = NoHist

SpecReset == InitReset /\ [][NextSw]_vars

(* ======================================================================= *)
(*                                 Claims                                  *)
(* ======================================================================= *)

Buttons == {"mode", "set", "prev", "next", "start_stop", "light"}

(* The handler on_button_pressed dispatches to, as a function of the state *)
Handler(b, s, t) ==
    CASE b = "mode" -> cycle_mode(s)
      [] b = "set" -> handle_set(s)
      [] b = "prev" -> handle_prev(s)
      [] b = "next" -> handle_next(s)
      [] b = "start_stop" -> handle_start_stop(s, t)
      [] b = "light" -> handle_light(s)

(* A step in which update_time was called: Tick, or a Minute or Wait of   *)
(* refreshes in a row (the wall clock is then on a refresh, and either was *)
(* not before or has moved).                                               *)
Refreshed == since_tick' = 0 /\ (since_tick # 0 \/ now' # now)

RECURSIVE Times(_, _, _, _)
Times(b, n, s, t) == IF n = 0 THEN s ELSE Times(b, n - 1, Handler(b, s, t), t)

OtherFields(fs) == \A f \in (DOMAIN self) \ fs : self'[f] = self[f]

C2_To(m) ==
    CASE m = "TIME" -> "SET_HOUR"
      [] m = "SET_HOUR" -> "SET_MINUTE"
      [] m = "SET_MINUTE" -> "SET_SECOND"
      [] m = "SET_SECOND" -> "TIME"
      [] m = "ALARM" -> "SET_ALARM_HOUR"
      [] m = "SET_ALARM_HOUR" -> "SET_ALARM_MINUTE"
      [] m = "SET_ALARM_MINUTE" -> "ALARM"
      [] m \in {"STOPWATCH", "TIMER"} -> m

C2_Row(s) ==
    [s EXCEPT !.mode = C2_To(s.mode),
              !.display_time = IF s.mode = "TIME" THEN s.current_time ELSE @,
              !.current_time = IF s.mode = "SET_SECOND" THEN s.display_time ELSE @,
              !.alarm_enabled = IF s.mode = "SET_ALARM_MINUTE" THEN TRUE ELSE @]

C2_Scenario(s, t) ==
    Times("set", 2, Times("next", 3, Times("set", 1, Times("mode", 1, s, t), t), t), t)

C2_SetFollowsTable ==
    /\ [][OnSet => self' = C2_Row(self)]_vars
    /\ [](self.mode = "TIME" /\ hour(self.alarm_time) = AlarmHour
            => LET r == C2_Scenario(self, now)
               IN  /\ r.mode = "ALARM"
                   /\ hour(r.alarm_time) = 10
                   /\ r.alarm_enabled
                   /\ r = [self EXCEPT !.mode = "ALARM", !.alarm_enabled = TRUE,
                                       !.alarm_time = @ + 3 * UnitsPerHour])

C2_Witness ==
    /\ self.mode = "ALARM"
    /\ hour(self.alarm_time) = 10
    /\ self.alarm_enabled
    /\ budget.presses = MaxScenarioEdits - 3

(* C3: MODE in a top-level mode moves it one step along TIME -> ALARM ->   *)
(* STOPWATCH -> TIMER -> TIME and changes nothing else; four presses in a  *)
(* row return to the same mode (and the same state).                       *)
C3_Succ(m) ==
    CASE m = "TIME" -> "ALARM"
      [] m = "ALARM" -> "STOPWATCH"
      [] m = "STOPWATCH" -> "TIMER"
      [] m = "TIMER" -> "TIME"

C3_ModeCyclesTopLevel ==
    /\ [][OnMode /\ self.mode \in TopLevel
            => self' = [self EXCEPT !.mode = C3_Succ(self.mode)]]_vars
    /\ [](self.mode \in TopLevel
            => /\ Times("mode", 4, self, now) = self
               /\ \A k \in 1..3 : Times("mode", k, self, now).mode # self.mode)

C3_Witness ==
    /\ self.mode = "TIMER"
    /\ self.stopwatch_running
    /\ self.alarm_enabled

(* C4: a setting sub-mode is entered only by SET pressed in its            *)
(* predecessor (SET_HOUR from TIME, SET_MINUTE from SET_HOUR, SET_SECOND   *)
(* from SET_MINUTE, SET_ALARM_HOUR from ALARM, SET_ALARM_MINUTE from       *)
(* SET_ALARM_HOUR), and from a setting sub-mode at most three SET presses  *)
(* lead to its parent (TIME, or ALARM for the two alarm sub-modes).       *)
C4_Pred(m) ==
    CASE m = "SET_HOUR" -> "TIME"
      [] m = "SET_MINUTE" -> "SET_HOUR"
      [] m = "SET_SECOND" -> "SET_MINUTE"
      [] m = "SET_ALARM_HOUR" -> "ALARM"
      [] m = "SET_ALARM_MINUTE" -> "SET_ALARM_HOUR"

C4_Parent(m) == IF m \in TimeSetting THEN "TIME" ELSE "ALARM"

C4_SettingEnteredAndLeftBySet ==
    /\ [][self'.mode \in Setting /\ self'.mode # self.mode
            => OnSet /\ self.mode = C4_Pred(self'.mode)]_vars
    /\ [](self.mode \in Setting
            => \E k \in 1..3 :
                  /\ Times("set", k, self, now).mode = C4_Parent(self.mode)
                  /\ \A j \in 1..(k - 1) :
                        Times("set", j, self, now).mode \in Setting)

C4_Witness ==
    /\ self.mode = "SET_SECOND"
    /\ hist.set_run = 3


C6_SetRoundTrip ==
    hist.set_run = 4
        => self.mode = "TIME" /\ self.current_time = hist.set_base

C6_Witness ==
    /\ hist.set_run = 4
    /\ now >= hist.set_base + UnitsPerTick
    /\ since_tick = 0

(* C7: in a setting sub-mode PREV and NEXT change only the edited field of *)
(* display_time (SET_HOUR, SET_MINUTE, SET_SECOND) or alarm_time (the two  *)
(* alarm sub-modes), by -1 and +1 with wraparound (hour 23+1=0, 0-1=23;    *)
(* minute, second 59+1=0, 0-1=59), and for every value of the field PREV   *)
(* then NEXT and NEXT then PREV restore the state.                         *)
C7_Fields(t) == <<date(t), hour(t), minute(t), second(t), microsecond(t)>>

C7_Stamp(m) == IF m \in TimeSetting THEN "display_time" ELSE "alarm_time"

C7_Index(m) ==
    CASE m \in {"SET_HOUR", "SET_ALARM_HOUR"} -> 2
      [] m \in {"SET_MINUTE", "SET_ALARM_MINUTE"} -> 3
      [] m = "SET_SECOND" -> 4

C7_Range(m) == IF m \in {"SET_HOUR", "SET_ALARM_HOUR"} THEN 24 ELSE 60

C7_Wrap(v, d, n) ==
    IF v + d = n THEN 0 ELSE IF v + d = -1 THEN n - 1 ELSE v + d

C7_With(s, v) ==
    LET t == s[C7_Stamp(s.mode)]
    IN  [s EXCEPT ![C7_Stamp(s.mode)] =
            CASE C7_Index(s.mode) = 2 -> replace_hour(t, v)
              [] C7_Index(s.mode) = 3 -> replace_minute(t, v)
              [] C7_Index(s.mode) = 4 -> replace_second(t, v)]

C7_Edited(d) ==
    /\ OtherFields({C7_Stamp(self.mode)})
    /\ C7_Fields(self'[C7_Stamp(self.mode)])
         = [C7_Fields(self[C7_Stamp(self.mode)]) EXCEPT
               ![C7_Index(self.mode)] = C7_Wrap(@, d, C7_Range(self.mode))]

C7_PrevNextInverse ==
    /\ [][/\ OnPrev /\ self.mode \in Setting => C7_Edited(-1)
          /\ OnNext /\ self.mode \in Setting => C7_Edited(1)]_vars
    /\ [](self.mode \in Setting
            => \A v \in 0..(C7_Range(self.mode) - 1) :
                  LET s1 == C7_With(self, v)
                      field(s) == C7_Fields(s[C7_Stamp(s.mode)])[C7_Index(s.mode)]
                  IN  /\ field(s1) = v
                      /\ field(handle_next(s1)) = C7_Wrap(v, 1, C7_Range(self.mode))
                      /\ field(handle_prev(s1)) = C7_Wrap(v, -1, C7_Range(self.mode))
                      /\ handle_next(handle_prev(s1)) = s1
                      /\ handle_prev(handle_next(s1)) = s1)

C7_Witness ==
    /\ self.mode = "SET_HOUR"
    /\ hour(self.current_time) = 23
    /\ hour(self.display_time) = 0
    /\ date(self.display_time) = date(self.current_time)

(* C8: timer_duration is always a whole number of minutes in [1, 99];      *)
(* PREV and NEXT in TIMER change it by one minute, except PREV at 1 and    *)
(* NEXT at 99, which leave it; LIGHT in TIMER with the timer stopped sets  *)
(* it to 5 minutes; nothing else changes it.                               *)
C8_Dur(k) == k * 60 * UnitsPerSecond

C8_TimerDurationClamped ==
    /\ [](\E k \in 1..99 : self.timer_duration = C8_Dur(k))
    /\ [][/\ OnPrev /\ self.mode = "TIMER"
             => self'.timer_duration =
                   IF self.timer_duration = C8_Dur(1) THEN C8_Dur(1)
                   ELSE self.timer_duration - C8_Dur(1)
          /\ OnNext /\ self.mode = "TIMER"
             => self'.timer_duration =
                   IF self.timer_duration = C8_Dur(99) THEN C8_Dur(99)
                   ELSE self.timer_duration + C8_Dur(1)
          /\ OnLight /\ self.mode = "TIMER" /\ ~self.timer_running
             => self'.timer_duration = C8_Dur(5)
          /\ self'.timer_duration # self.timer_duration
             => \/ (OnPrev \/ OnNext) /\ self.mode = "TIMER"
                \/ OnLight /\ self.mode = "TIMER" /\ ~self.timer_running]_vars

C8_Witness ==
    /\ self.mode = "TIMER"
    /\ self.timer_duration = C8_Dur(99)
    /\ budget.presses = 0
    /\ self.timer_start = None
    /\ self.stopwatch_start = None
    /\ self.alarm_time = init(self.current_time).alarm_time
    /\ self.display_time = self.current_time

(* C9: every button has a defined result in every mode, and these presses  *)
(* leave the whole state unchanged: PREV/NEXT in TIME, ALARM, STOPWATCH;   *)
(* SET in STOPWATCH, TIMER; START/STOP in TIME and the five setting        *)
(* sub-modes; LIGHT outside STOPWATCH and TIMER, in STOPWATCH while the    *)
(* stopwatch runs and in TIMER while the timer runs.                       *)
C9_NoOp(b, s) ==
    \/ b \in {"prev", "next"} /\ s.mode \in {"TIME", "ALARM", "STOPWATCH"}
    \/ b = "set" /\ s.mode \in {"STOPWATCH", "TIMER"}
    \/ b = "start_stop" /\ s.mode \in {"TIME"} \cup Setting
    \/ b = "light" /\ s.mode \notin {"STOPWATCH", "TIMER"}
    \/ b = "light" /\ s.mode = "STOPWATCH" /\ s.stopwatch_running
    \/ b = "light" /\ s.mode = "TIMER" /\ s.timer_running

C9_UnlistedPressesAreNoOps ==
    /\ [][/\ OnPrev /\ C9_NoOp("prev", self) => self' = self
          /\ OnNext /\ C9_NoOp("next", self) => self' = self
          /\ OnSet /\ C9_NoOp("set", self) => self' = self
          /\ OnStartStop /\ C9_NoOp("start_stop", self) => self' = self
          /\ OnLight /\ C9_NoOp("light", self) => self' = self]_vars
    /\ [](\A b \in Buttons :
             /\ DOMAIN Handler(b, self, now) = DOMAIN self
             /\ Handler(b, self, now).mode \in ClockMode
             /\ C9_NoOp(b, self) => Handler(b, self, now) = self)

C9_Witness ==
    /\ self.mode = "SET_HOUR"
    /\ hist.set_run = 0
    /\ budget.presses = MaxPresses
    /\ self.display_time = self.current_time

(* C10: a stopwatch started from reset at t0 and stopped at t1, with at    *)
(* least one tick in between, shows after the stop an elapsed time of at   *)
(* least t1 - t0 and at most t1 - t0 plus one refresh interval.            *)
C10_StopFreezesTrueRunTime ==
    [][/\ OnStartStop
       /\ self.mode = "STOPWATCH"
       /\ self.stopwatch_running
       /\ hist.sw_t0 # None
       /\ self.stopwatch_elapsed > 0
       => /\ ~self'.stopwatch_running
          /\ self'.stopwatch_elapsed >= now - hist.sw_t0
          /\ self'.stopwatch_elapsed <= now - hist.sw_t0 + UnitsPerTick]_vars

(* C11: while the stopwatch is paused no tick and no passage of time       *)
(* changes stopwatch_elapsed; START/STOP on a paused stopwatch sets        *)
(* stopwatch_start to now - stopwatch_elapsed, keeps stopwatch_elapsed and *)
(* sets it running; every tick after the resume gives the elapsed time at  *)
(* the pause plus the time since the resume, the idle interval excluded.   *)
C11_ResumeKeepsElapsed ==
    [][/\ (Tick \/ Advance) /\ ~self.stopwatch_running
          => /\ self'.stopwatch_elapsed = self.stopwatch_elapsed
             /\ self'.stopwatch_start = self.stopwatch_start
       /\ OnStartStop /\ self.mode = "STOPWATCH" /\ ~self.stopwatch_running
                      /\ self.stopwatch_start # None
          => /\ self'.stopwatch_start = now - self.stopwatch_elapsed
             /\ self'.stopwatch_elapsed = self.stopwatch_elapsed
             /\ self'.stopwatch_running
       /\ Tick /\ self.stopwatch_running /\ hist.sw_resumed # None
          => self'.stopwatch_elapsed = hist.sw_paused + (now - hist.sw_resumed)]_vars

(* resumed after an idle interval, and refreshed since: run 2, idle 1, run 1 *)
C11_Witness ==
    /\ self.stopwatch_running
    /\ since_tick = 0
    /\ hist.sw_resumed # None
    /\ hist.sw_paused > 0
    /\ self.stopwatch_elapsed > hist.sw_paused
    /\ self.stopwatch_elapsed = hist.sw_paused + (now - hist.sw_resumed)
    /\ self.stopwatch_elapsed < now - hist.sw_first

(* C12: a tick (or a run of ticks) leaves timer_running true exactly when  *)
(* the timer was running and now - timer_start < timer_duration at the     *)
(* tick: ticks before that keep it running, the first tick at or after it  *)
(* clears it, no tick sets it again.  In TIMER mode the time shown is      *)
(* never negative: the remaining whole seconds as MM:SS while the timer    *)
(* runs and has time left, 00:00 while it runs and has none, even before   *)
(* the tick that clears timer_running.                                     *)
C12_MMSS(secs) == fmt02d(secs \div 60) \o ":" \o fmt02d(secs % 60)

C12_Clock == {C12_MMSS(secs) : secs \in 0..(MaxTimerMinutes * 60)}

C12_TimerExpiresOnce ==
    /\ [][Refreshed
            => self'.timer_running =
                  (self.timer_running
                     /\ now' - self.timer_start < self.timer_duration)]_vars
    /\ [](self.mode = "TIMER"
            => LET shown == update_display(self, now).time_display
                   remaining == self.timer_duration - (now - self.timer_start)
               IN  /\ shown \in C12_Clock
                   /\ self.timer_running /\ remaining <= 0 => shown = "00:00"
                   /\ self.timer_running /\ remaining > 0
                        => shown = C12_MMSS(remaining \div UnitsPerSecond))

(* START/STOP alone was pressed, and the tick at now = timer_start +       *)
(* timer_duration has just cleared timer_running                           *)
C12_Witness ==
    /\ self.mode = "TIMER"
    /\ ~self.timer_running
    /\ self.timer_start # None
    /\ now - self.timer_start = self.timer_duration
    /\ since_tick = 0
    /\ budget.presses = MaxPresses - 1

(* C13: START/STOP in TIMER mode on a stopped timer sets timer_start to    *)
(* now and timer_running to true, on a running timer it sets only          *)
(* timer_running to false; START/STOP in ALARM mode toggles only           *)
(* alarm_enabled; a tick that finds the timer expired does to the timer    *)
(* nothing but clear timer_running (the state after it is the one the same *)
(* tick gives with the timer stopped), timer_start stays set and           *)
(* timer_duration is unchanged.                                            *)
C13_StartStopTogglesTimer ==
    [][/\ OnStartStop /\ self.mode = "TIMER" /\ ~self.timer_running
          => self' = [self EXCEPT !.timer_start = now, !.timer_running = TRUE]
       /\ OnStartStop /\ self.mode = "TIMER" /\ self.timer_running
          => self' = [self EXCEPT !.timer_running = FALSE]
       /\ OnStartStop /\ self.mode = "ALARM"
          => self' = [self EXCEPT !.alarm_enabled = ~self.alarm_enabled]
       /\ Refreshed /\ self.timer_running /\ ~self'.timer_running
          => /\ self'.timer_start = self.timer_start
             /\ self'.timer_start # None
             /\ self'.timer_duration = self.timer_duration
       /\ Tick /\ self.timer_running /\ ~self'.timer_running
          => self' = update_time([self EXCEPT !.timer_running = FALSE], now)]_vars

(* the alarm was switched on in ALARM mode and the timer, started before,  *)
(* has expired in the background                                           *)
C13_Witness ==
    /\ self.mode = "ALARM"
    /\ self.alarm_enabled
    /\ ~self.timer_running
    /\ self.timer_start # None
    /\ now - self.timer_start >= self.timer_duration
    /\ budget.presses = MaxPresses - 1

(* C14: LIGHT in STOPWATCH mode with the stopwatch stopped clears          *)
(* stopwatch_start and zeroes stopwatch_elapsed and nothing else, and a    *)
(* START/STOP after it starts from zero; LIGHT in TIMER mode with the      *)
(* timer stopped sets timer_duration to 5 minutes and nothing else; every  *)
(* other LIGHT press changes nothing; while the stopwatch runs no step     *)
(* zeroes a positive stopwatch_elapsed or changes stopwatch_start, and     *)
(* timer_duration is changed by nothing but that LIGHT press.              *)
C14_LightResetsOnlyStopped ==
    [][/\ OnLight /\ self.mode = "STOPWATCH" /\ ~self.stopwatch_running
          => /\ self' = [self EXCEPT !.stopwatch_start = None,
                                     !.stopwatch_elapsed = 0]
             /\ handle_start_stop(self', now) =
                   [self' EXCEPT !.stopwatch_start = now,
                                 !.stopwatch_running = TRUE]
       /\ OnLight /\ self.mode = "TIMER" /\ ~self.timer_running
          => self' = [self EXCEPT !.timer_duration = 5 * 60 * UnitsPerSecond]
       /\ OnLight /\ ~(self.mode = "STOPWATCH" /\ ~self.stopwatch_running)
                  /\ ~(self.mode = "TIMER" /\ ~self.timer_running)
          => self' = self
       /\ self.stopwatch_running
          => /\ self'.stopwatch_start = self.stopwatch_start
             /\ self.stopwatch_elapsed > 0 => self'.stopwatch_elapsed > 0
       /\ self'.timer_duration # self.timer_duration
          => OnLight /\ self.mode = "TIMER" /\ ~self.timer_running]_vars

(* the stopwatch was started, stopped and reset, then the timer's duration *)
(* was reset                                                               *)
C14_Witness ==
    /\ self.mode = "TIMER"
    /\ self.timer_duration = 5 * 60 * UnitsPerSecond
    /\ self.timer_start = None
    /\ self.stopwatch_start = None
    /\ self.stopwatch_elapsed = 0
    /\ ~self.stopwatch_running
    /\ budget.presses = 0
    /\ budget.time = 0

(* C15: a tick in one of the five setting sub-modes negates blink_state;   *)
(* no other step changes it: not a tick in TIME, ALARM, STOPWATCH or       *)
(* TIMER, not any of the six button handlers in any reachable state; and   *)
(* update_display leaves every field of the state as it was.               *)
C15_BlinkFlipsOnSettingTicks ==
    /\ [][/\ Tick /\ self.mode \in Setting
              => self'.blink_state = ~self.blink_state
          /\ self'.blink_state # self.blink_state
              => Tick /\ self.mode \in Setting]_vars
    /\ [](/\ \A b \in Buttons :
                Handler(b, self, now).blink_state = self.blink_state
           /\ update_display_self(self, now) = self)

(* a tick in SET_ALARM_MINUTE has blanked the field, and no later step    *)
(* has brought it back                                                     *)
C15_Witness ==
    /\ self.mode = "SET_ALARM_MINUTE"
    /\ ~self.blink_state
    /\ since_tick = 0
    /\ budget.time = MaxElapse - UnitsPerTick

(* C16: the time shown is HH:MM:SS of display_time (TIME and the three     *)
(* time sub-modes) or HH:MM of alarm_time (ALARM and its two sub-modes),   *)
(* where a field is two spaces exactly when blink_state is false and the   *)
(* mode is the sub-mode that sets this field, and two zero-padded digits   *)
(* otherwise; in STOPWATCH and TIMER it is made of digits only.            *)
C16_TwoDigits(n) == Digit[(n \div 10) + 1] \o Digit[(n % 10) + 1]

C16_Field(m, n) ==
    IF ~self.blink_state /\ self.mode = m THEN "  " ELSE C16_TwoDigits(n)

C16_Stopwatch ==
    LET e == self.stopwatch_elapsed
    IN  C16_TwoDigits(e \div UnitsPerMinute) \o ":"
        \o C16_TwoDigits((e \div UnitsPerSecond) % 60) \o "."
        \o C16_TwoDigits(((e % UnitsPerSecond) * 100) \div UnitsPerSecond)

C16_BlankingIsFieldLevel ==
    LET shown == update_display(self, now).time_display
    IN  /\ self.mode \in {"TIME", "SET_HOUR", "SET_MINUTE", "SET_SECOND"}
           => shown = C16_Field("SET_HOUR", hour(self.display_time)) \o ":"
                      \o C16_Field("SET_MINUTE", minute(self.display_time)) \o ":"
                      \o C16_Field("SET_SECOND", second(self.display_time))
        /\ self.mode \in {"ALARM", "SET_ALARM_HOUR", "SET_ALARM_MINUTE"}
           => shown = C16_Field("SET_ALARM_HOUR", hour(self.alarm_time)) \o ":"
                      \o C16_Field("SET_ALARM_MINUTE", minute(self.alarm_time))
        /\ self.mode = "STOPWATCH" => shown = C16_Stopwatch
        /\ self.mode = "TIMER" => shown \in C12_Clock

(* SET_MINUTE with the phase off: the minute alone is blank *)
C16_Witness ==
    /\ self.mode = "SET_MINUTE"
    /\ ~self.blink_state
    /\ hour(self.display_time) = 23
    /\ second(self.display_time) = 59
    /\ update_display(self, now).time_display = "23:  :59"

(* C17: whatever the mode, a tick sets stopwatch_elapsed to now -          *)
(* stopwatch_start when the stopwatch runs, and leaves timer_running true  *)
(* exactly when the timer ran and has time left (so it clears it when the  *)
(* timer has expired); this holds of the ticks taken and of a tick in each *)
(* of the nine modes from every reachable state.  MODE and SET presses     *)
(* change none of stopwatch_start, stopwatch_elapsed, stopwatch_running,   *)
(* timer_start, timer_duration, timer_running.                             *)
C17_Instruments == {"stopwatch_start", "stopwatch_elapsed", "stopwatch_running",
                    "timer_start", "timer_duration", "timer_running"}

C17_BackgroundInstruments ==
    /\ [][/\ Refreshed /\ self.stopwatch_running
              => self'.stopwatch_elapsed = now' - self.stopwatch_start
          /\ Refreshed
              => self'.timer_running =
                    (self.timer_running
                       /\ now' - self.timer_start < self.timer_duration)
          /\ (OnMode \/ OnSet)
              => \A f \in C17_Instruments : self'[f] = self[f]]_vars
    /\ [](\A m \in ClockMode :
             LET s == [self EXCEPT !.mode = m]
                 u == update_time(s, now)
             IN  /\ s.stopwatch_running
                     => u.stopwatch_elapsed = now - s.stopwatch_start
                 /\ u.timer_running =
                       (s.timer_running /\ now - s.timer_start < s.timer_duration)
                 /\ \A b \in {"mode", "set"}, f \in C17_Instruments :
                       Handler(b, s, now)[f] = s[f])

(* the timer has expired while SET_SECOND was shown *)
C17_Witness ==
    /\ self.mode = "SET_SECOND"
    /\ since_tick = 0
    /\ hist.set_run = 3
    /\ ~self.timer_running
    /\ self.timer_start # None
    /\ now - self.timer_start >= self.timer_duration

(* C18: whenever the timer is running it is eventually not running, in     *)
(* whatever mode is shown and whatever buttons are pressed meanwhile, as   *)
(* long as update_time keeps being called.                                 *)
C18_TimerEventuallyStops == self.timer_running ~> ~self.timer_running

(* the 5-minute timer has run out while STOPWATCH mode was shown *)
C18_Witness ==
    /\ self.mode = "STOPWATCH"
    /\ ~self.timer_running
    /\ self.timer_start # None
    /\ now - self.timer_start = self.timer_duration
    /\ self.timer_duration = timedelta_minutes(DefaultTimerMinutes)
    /\ budget.presses = 0

(* C19: in every reachable state a running stopwatch has stopwatch_start   *)
(* set and a running timer has timer_start set, so the tests of the start  *)
(* in update_time suppress nothing: a tick at any time from now on gives a *)
(* running stopwatch its elapsed time and a running timer its expiry.      *)
C19_RunningImpliesStartSet ==
    /\ self.stopwatch_running
       => /\ self.stopwatch_start # None
          /\ update_time(self, now + UnitsPerTick).stopwatch_elapsed
                = now + UnitsPerTick - self.stopwatch_start
    /\ self.timer_running
       => /\ self.timer_start # None
          /\ ~update_time(self, self.timer_start + self.timer_duration).timer_running

(* both instruments running *)
C19_Witness ==
    /\ self.stopwatch_running
    /\ self.timer_running
    /\ self.stopwatch_start # None
    /\ self.timer_start # None
    /\ self.timer_start > self.stopwatch_start

(* C20: a tick in a mode other than TIME leaves current_time and           *)
(* display_time as they were; SET in SET_SECOND returns to TIME with       *)
(* current_time set to the edited display_time; a tick in TIME sets both   *)
(* to the wall clock, so a committed time that no press has followed is    *)
(* gone with the first tick after the commit.                              *)
C20_SetTimeDoesNotPersist ==
    [][/\ Tick /\ self.mode # "TIME"
          => /\ self'.current_time = self.current_time
             /\ self'.display_time = self.display_time
       /\ OnSet /\ self.mode = "SET_SECOND"
          => /\ self'.mode = "TIME"
             /\ self'.current_time = self.display_time
             /\ self'.display_time = self.display_time
       /\ Tick /\ self.mode = "TIME"
          => /\ self'.current_time = now
             /\ self'.display_time = now
       /\ Tick /\ hist.committed # None /\ self.current_time = hist.committed
          => /\ self.mode = "TIME"
             /\ self'.current_time # hist.committed
             /\ self'.display_time # hist.committed]_vars

(* an edited time was committed and the next tick has replaced it *)
C20_Witness ==
    /\ self.mode = "TIME"
    /\ hist.committed # None
    /\ since_tick = 0
    /\ self.current_time = now
    /\ self.display_time = now
    /\ self.current_time # hist.committed

TypeOK ==
    /\ self.mode \in ClockMode
    /\ self.alarm_enabled \in BOOLEAN
    /\ self.stopwatch_running \in BOOLEAN
    /\ self.timer_running \in BOOLEAN
    /\ self.blink_state \in BOOLEAN

====
